---- MODULE Spec2Model ----
(***************************************************************************)
(* Model of the analytics pipeline of src/services/stockService.ts:        *)
(*   calculateSMA, detectPatterns, fetchMarketData, the RiskCalculator     *)
(*   component's calculatePosition and the Dashboard's strict filter; and  *)
(*   of analyzeChartPattern of src/services/geminiService.ts.              *)
(*                                                                         *)
(* Eight specifications share the module:                                  *)
(*   Spec           one call of fetchMarketData over the tracked symbols,  *)
(*                  every interleaving of the provider's responses;        *)
(*   SpecAnalyze    the indicators, signals and latest values of one       *)
(*                  symbol's series (steps 3 and 4 of fetchMarketData and  *)
(*                  the StockData it returns), on long series;             *)
(*   SpecRisk       the RiskCalculator component;                          *)
(*   SpecDashboard  the Dashboard's list under the strict filter;          *)
(*   SpecAI         one call of analyzeChartPattern;                       *)
(*   SpecPair       detectPatterns on two series that differ in one        *)
(*                  session;                                               *)
(*   SpecPanel      the Dashboard's selection and its AI panel:            *)
(*                  handleStockSelect, handleAiAnalysis and the analyses   *)
(*                  in flight;                                             *)
(*   SpecPanelFair  SpecPanel where every analysis in flight settles.      *)
(*                                                                         *)
(* Numbers.  Prices and volumes of candles are integers (a price is a      *)
(* whole number of ticks of 0.1).  Every quotient the code computes is an  *)
(* exact rational [n, d]; JavaScript's division by zero is kept: x/0 is    *)
(* Infinity ([n |-> 1, d |-> 0]), -Infinity ([n |-> -1, d |-> 0]) or NaN   *)
(* ([n |-> 0, d |-> 0]).  Rounding of IEEE doubles is not modelled.        *)
(***************************************************************************)
EXTENDS Integers, Sequences, FiniteSets, TLC

\* ------------------------------------------------------------------------
\* Bounds of the model
\* ------------------------------------------------------------------------
\* longest candle series drawn as an input of the indicator stage
MaxLen == 201
\* longest candle series drawn as an input of the pattern stage
MaxPatLen == 52
\* longest candle series of a pair compared under detectPatterns
MaxPairLen == 53
\* number of tracked symbols of a refresh (a prefix of TARGET_STOCKS)
NumStocks == 3
\* most calls of analyzeChartPattern the AI panel has in flight at a time
MaxInFlight == 2

\* ------------------------------------------------------------------------
\* JavaScript values
\* ------------------------------------------------------------------------
\* null of a nullable number or object
NULL == [null |-> TRUE]

Abs(x) == IF x < 0 THEN -x ELSE x
Max2(a, b) == IF a > b THEN a ELSE b
Min2(a, b) == IF a < b THEN a ELSE b

RECURSIVE Gcd(_, _)
Gcd(a, b) == IF b = 0 THEN a ELSE Gcd(b, a % b)

Sign(x) == IF x > 0 THEN 1 ELSE IF x < 0 THEN -1 ELSE 0

\* the number n/d of JavaScript, in lowest terms; d = 0 gives +-Infinity or NaN
JsDiv(n, d) ==
  IF d = 0 THEN [n |-> Sign(n), d |-> 0]
  ELSE LET s == IF d < 0 THEN -1 ELSE 1
           g == Gcd(Abs(n), Abs(d))
       IN  [n |-> (s * n) \div g, d |-> (s * d) \div g]

Rat(n, d) == JsDiv(n, d)
IsNaN(x) == x.n = 0 /\ x.d = 0
\* x < y of JavaScript numbers: false as soon as one side is NaN
JsLt(x, y) ==
  /\ ~IsNaN(x)
  /\ ~IsNaN(y)
  /\ IF x.d = 0 /\ y.d = 0 THEN x.n < y.n ELSE x.n * y.d < y.n * x.d
JsGt(x, y) == JsLt(y, x)
JsLe(x, y) == ~IsNaN(x) /\ ~IsNaN(y) /\ ~JsLt(y, x)

\* ------------------------------------------------------------------------
\* calculateSMA
\* ------------------------------------------------------------------------
RECURSIVE SumFrom(_, _, _)
\* data[from] + ... + data[to], the reduce of a slice from 0; the sum is
\* exact, so it is taken by halves to keep the evaluation shallow
SumFrom(data, from, to) ==
  IF from > to THEN 0
  ELSE IF from = to THEN 0 + data[from]
  ELSE LET mid == (from + to) \div 2
       IN  SumFrom(data, from, mid) + SumFrom(data, mid + 1, to)

\* first index (1-based) of data.slice(data.length - window)
SliceStartMutant(data, window) == Len(data) - window + 2
SliceStart(data, window) == Len(data) - window + 1

calculateSMA(data, window) ==
  IF Len(data) < window THEN NULL
  ELSE JsDiv(SumFrom(data, SliceStart(data, window), Len(data)), window)

\* ------------------------------------------------------------------------
\* fetchMarketData, step 3: the indicators of every candle
\* ------------------------------------------------------------------------
\* the candle pushed to processedData for rawData[k], prices and volumes
\* being the closes and volumes pushed so far
ProcessedCandle(rawData, k) ==
  LET prices  == [j \in 1..k |-> rawData[j].close]
      volumes == [j \in 1..k |-> rawData[j].Trading_Volume]
      d == rawData[k]
  IN  [date   |-> d.date,
       open   |-> d.open,
       high   |-> d.max,
       low    |-> d.min,
       close  |-> d.close,
       volume |-> d.Trading_Volume,
       ma5    |-> calculateSMA(prices, 5),
       ma10   |-> calculateSMA(prices, 10),
       ma20   |-> calculateSMA(prices, 20),
       ma50   |-> calculateSMA(prices, 50),
       ma200  |-> calculateSMA(prices, 200),
       volMa5 |-> calculateSMA(volumes, 5)]

ProcessData(rawData) == [k \in 1..Len(rawData) |-> ProcessedCandle(rawData, k)]

\* ------------------------------------------------------------------------
\* detectPatterns
\* ------------------------------------------------------------------------
Num(i) == Rat(i, 1)
\* product of two finite numbers
Mul(x, y) == Rat(x.n * y.n, x.d * y.d)

\* number of leading candles the key level is taken from
KeyLevelSpan == 50

RECURSIVE MaxHighIn(_, _, _)
\* the greatest high of data[from..to], from <= to, taken by halves
MaxHighIn(data, from, to) ==
  IF from = to THEN data[from].high
  ELSE LET mid == (from + to) \div 2
       IN  Max2(MaxHighIn(data, from, mid), MaxHighIn(data, mid + 1, to))

\* Math.max(...data.slice(0, upto).map(d => d.high)), upto >= 1
MaxHigh(data, upto) == MaxHighIn(data, 1, upto)

KeyLevelOfMutant(data) ==
  IF Len(data) > KeyLevelSpan THEN MaxHigh(data, KeyLevelSpan + 1) ELSE 0
KeyLevelOf(data) ==
  IF Len(data) > KeyLevelSpan THEN MaxHigh(data, KeyLevelSpan) ELSE 0

IsPinBarMutant(curr) ==
  LET range     == curr.high - curr.low
      body      == Abs(curr.open - curr.close)
      upperWick == curr.high - Max2(curr.open, curr.close)
      lowerWick == Min2(curr.open, curr.close) - curr.low
  IN  /\ range > 0
      /\ JsGt(Num(lowerWick), Mul(Num(range), Rat(6, 10)))
      /\ JsLe(Num(body), Mul(Num(range), Rat(25, 100)))
      /\ JsLt(Num(upperWick), Mul(Num(range), Rat(15, 100)))
IsPinBar(curr) ==
  LET range     == curr.high - curr.low
      body      == Abs(curr.open - curr.close)
      upperWick == curr.high - Max2(curr.open, curr.close)
      lowerWick == Min2(curr.open, curr.close) - curr.low
  IN  /\ range > 0
      /\ JsGt(Num(lowerWick), Mul(Num(range), Rat(6, 10)))
      /\ JsLt(Num(body), Mul(Num(range), Rat(25, 100)))
      /\ JsLt(Num(upperWick), Mul(Num(range), Rat(15, 100)))

IsEngulfingMutant(prev, curr) ==
  /\ prev.close < prev.open
  /\ curr.close > curr.open
  /\ curr.open < prev.open
  /\ curr.close > prev.close
IsEngulfing(prev, curr) ==
  /\ prev.close < prev.open
  /\ curr.close > curr.open
  /\ curr.open < prev.close
  /\ curr.close > prev.open

NearKeyLevelMutant(curr, keyLevel) ==
  JsLe(JsDiv(Abs(curr.low - keyLevel), keyLevel), Rat(2, 100))
NearKeyLevel(curr, keyLevel) ==
  JsLt(JsDiv(Abs(curr.low - keyLevel), keyLevel), Rat(2, 100))

IsRSFlip(isPinBar, isEngulfing, nearKeyLevel) ==
  nearKeyLevel /\ (isPinBar \/ isEngulfing)

\* the value of a signalType that is null
NOSIGNAL == "null"

SignalTypeMutant(isRSFlip, isPinBar, isEngulfing, nearKeyLevel) ==
  IF isRSFlip \/ isPinBar \/ (isEngulfing /\ nearKeyLevel)
  THEN "BUY" ELSE NOSIGNAL
SignalType(isRSFlip, isPinBar, isEngulfing, nearKeyLevel) ==
  IF isRSFlip \/ (isPinBar /\ nearKeyLevel) \/ (isEngulfing /\ nearKeyLevel)
  THEN "BUY" ELSE NOSIGNAL

\* the value the map callback returns for data[i] (1-based; i = 1 is index 0)
AnnotatedMutant(data, i, keyLevel) ==
  LET curr == data[i]
      prev == IF i = 1 THEN data[i] ELSE data[i - 1]
      isPinBar     == IsPinBar(curr)
      isEngulfing  == IsEngulfing(prev, curr)
      nearKeyLevel == NearKeyLevel(curr, keyLevel)
      isRSFlip     == IsRSFlip(isPinBar, isEngulfing, nearKeyLevel)
  IN  [isPinBar    |-> isPinBar,
       isEngulfing |-> isEngulfing,
       isRSFlip    |-> isRSFlip,
       signalType  |-> SignalType(isRSFlip, isPinBar, isEngulfing, nearKeyLevel)]
      @@ curr
Annotated(data, i, keyLevel) ==
  IF i = 1 THEN data[i]
  ELSE LET curr == data[i]
           prev == data[i - 1]
           isPinBar     == IsPinBar(curr)
           isEngulfing  == IsEngulfing(prev, curr)
           nearKeyLevel == NearKeyLevel(curr, keyLevel)
           isRSFlip     == IsRSFlip(isPinBar, isEngulfing, nearKeyLevel)
       IN  [isPinBar    |-> isPinBar,
            isEngulfing |-> isEngulfing,
            isRSFlip    |-> isRSFlip,
            signalType  |-> SignalType(isRSFlip, isPinBar, isEngulfing, nearKeyLevel)]
           @@ curr

detectPatternsMutant(data) ==
  [i \in 1..Len(data) |->
     Annotated(data, i, IF Len(data) > KeyLevelSpan /\ i > 1
                        THEN MaxHigh(data, i - 1) ELSE 0)]
detectPatterns(data) ==
  LET keyLevel == KeyLevelOf(data)
  IN  [i \in 1..Len(data) |-> Annotated(data, i, keyLevel)]

\* ------------------------------------------------------------------------
\* State
\* ------------------------------------------------------------------------
VARIABLES
  \* the analytics of one symbol (fetchMarketData, steps 3 and 4)
  rawData,        \* the provider's rows of the symbol
  processedData,  \* the candles with their indicators
  analyzedData,   \* the candles with indicators and signal fields
  keyLevel,       \* detectPatterns' keyLevel
  snapshot,       \* the StockData returned for the symbol, or null
  stage           \* "fetched", "processed", "analyzed" or "returned"

VARIABLES
  \* the RiskCalculator component
  params,         \* RiskParams
  result,         \* RiskResult or null
  mounted         \* whether the component's effects have run once

VARIABLES
  \* one call of fetchMarketData
  todayStr,       \* today's date in Taiwan, a day number
  batch,          \* "idle", "awaiting", "returned" or "rejected"
  pc,             \* per symbol: "idle", "history", "snapshot" or "done"
  fetched,        \* per symbol: its rawData
  promises,       \* per symbol: PENDING, REJECTED, null or its StockData
  results,        \* the list fetchMarketData resolves to
  historyOutcome, \* per symbol: how its TaiwanStockPrice request ended
  tickOutcome,    \* per symbol: how its TaiwanStockTick request ended
  tickRequests,   \* per symbol: number of TaiwanStockTick requests issued
  historyData,    \* per symbol: the rows of its TaiwanStockPrice response
  tickData        \* per symbol: the ticks of its TaiwanStockTick response

VARIABLES
  \* the Dashboard component
  stocks,         \* the list of StockData the query holds
  filterEnabled,  \* the strict filter's switch
  filteredStocks  \* the memoized list shown

VARIABLES
  \* one call of analyzeChartPattern
  aiCall,         \* "idle", "awaiting", "returned" or "rejected"
  aiPrompt,       \* the symbol and the candles written into the prompt
  aiOutcome,      \* how the call went
  aiValue         \* the AIAnalysisResult returned, or the error it rejects with

analyticsVars == <<rawData, processedData, analyzedData, keyLevel, snapshot,
                   stage>>
riskVars == <<params, result, mounted>>
fetchVars == <<todayStr, batch, pc, fetched, promises, results,
               historyOutcome, tickOutcome, tickRequests, historyData, tickData>>
VARIABLES
  \* detectPatterns applied to two series
  pairRaw,        \* the two series of provider rows
  pairAnalyzed,   \* their candles with indicators and signal fields
  pairStage       \* "fetched" or "analyzed"

VARIABLES
  \* the Dashboard's selection and its AI panel
  selectedCode,   \* the code of the selected stock, or null
  aiStatus,       \* AnalysisStatus
  aiResult,       \* AIAnalysisResult or null
  analyses,       \* the calls of handleAiAnalysis that await their result
  aiResultOf      \* the code of the stock whose analysis set aiResult

pairVars == <<pairRaw, pairAnalyzed, pairStage>>
panelVars == <<selectedCode, aiStatus, aiResult, analyses, aiResultOf>>
dashVars == <<stocks, filterEnabled, filteredStocks>>
aiVars == <<aiCall, aiPrompt, aiOutcome, aiValue>>
vars == <<analyticsVars, riskVars, fetchVars, dashVars, aiVars, pairVars,
          panelVars>>

\* the variables of a part of the program that is not running
AnalyticsIdle ==
  /\ rawData = <<>>
  /\ processedData = <<>>
  /\ analyzedData = <<>>
  /\ keyLevel = 0
  /\ snapshot = NULL
  /\ stage = "idle"
RiskIdle ==
  /\ params = NULL
  /\ result = NULL
  /\ mounted = FALSE
PairIdle ==
  /\ pairRaw = <<>>
  /\ pairAnalyzed = <<>>
  /\ pairStage = "idle"
\* selectedCode before a stock is selected (useState<string | null>(null))
NOCODE == "null"
PanelIdle ==
  /\ selectedCode = NOCODE
  /\ aiStatus = "IDLE"
  /\ aiResult = NULL
  /\ analyses = <<>>
  /\ aiResultOf = NOCODE
DashboardIdle ==
  /\ stocks = <<>>
  /\ filterEnabled = FALSE
  /\ filteredStocks = <<>>
AiIdle ==
  /\ aiCall = "idle"
  /\ aiPrompt = NULL
  /\ aiOutcome = NULL
  /\ aiValue = NULL
FetchIdle ==
  /\ todayStr = 0
  /\ batch = "idle"
  /\ pc = <<>>
  /\ fetched = <<>>
  /\ promises = <<>>
  /\ results = <<>>
  /\ historyOutcome = <<>>
  /\ tickOutcome = <<>>
  /\ tickRequests = <<>>
  /\ historyData = <<>>
  /\ tickData = <<>>

\* ------------------------------------------------------------------------
\* Candle series drawn as the provider's answer
\* ------------------------------------------------------------------------
Row(date, open, max, min, close, volume) ==
  [date |-> date, open |-> open, max |-> max, min |-> min, close |-> close,
   Trading_Volume |-> volume]

\* an ordinary session, k-th of the series, of the family g
Filler(k, g) ==
  LET close == 100 + ((k * g) % 7)
      open  == 100 + ((k + g) % 5)
  IN  Row(k, open, Max2(open, close) + (k % 3), Min2(open, close) - (k % 2),
          close, ((k * g) % 4) * 1000)

\* the session that sets the resistance: its high is 150
Peak(k) == Row(k, 140, 150, 138, 148, 9000)

\* [open, max, min, close, volume] of the sessions tried at the end of a series
Shapes ==
  { <<160, 163, 148, 162, 5000>>,   \* hammer, low 148
    <<159, 162, 147, 161, 5000>>,   \* hammer, low 147 = 150 - 2%
    <<100, 103,  90, 102, 3000>>,   \* hammer 10.0 / 10.3 / 9.0 / 10.2
    <<113, 120, 100, 118, 3000>>,   \* body = 0.25 * range
    <<113, 120, 100, 117, 3000>>,   \* upper wick = 0.15 * range
    <<100, 101,  89,  90, 4000>>,   \* falling 10 -> 9
    << 89, 102,  88, 101, 4000>>,   \* rising 8.9 -> 10.1
    <<152, 153, 149, 150, 2000>>,   \* falling, low 149
    <<149, 154, 149, 153, 2000>>,   \* rising, low 149
    <<150, 153, 149, 152, 2000>>,   \* rising, opens at the previous close
    <<100, 100, 100, 100,    0>>,   \* no range
    <<  0,   0,   0,   0,    0>> }  \* all zero

ShapeRow(k, sh) == Row(k, sh[1], sh[2], sh[3], sh[4], sh[5])

\* n sessions: fillers of family g, the peak at position p (0: none), and
\* the shapes a, b as the last two sessions
PatternSeries(n, g, p, a, b) ==
  [k \in 1..n |->
     IF k = n THEN ShapeRow(k, b)
     ELSE IF k = n - 1 THEN ShapeRow(k, a)
     ELSE IF k = p THEN Peak(k)
     ELSE Filler(k, g)]

FillerSeries(n, g) == [k \in 1..n |-> Filler(k, g)]

\* lengths around each window of the indicators
IndicatorLens ==
  (1..12) \cup {19, 20, 21, 49, 50, 51} \cup (199..MaxLen)
\* lengths around the span of the key level
PatternLens == {2, 3} \cup ((KeyLevelSpan - 1)..MaxPatLen)

\* sessions without a trade (family 4: the volume is 0) and without a price
QuietLens == {n \in {5, 6, 200, 201} : n <= MaxLen}
ZeroSeries(n) == [k \in 1..n |-> Row(k, 0, 0, 0, 0, 0)]

InputSeries ==
  {FillerSeries(n, g) : n \in IndicatorLens, g \in {1, 3}}
  \cup {FillerSeries(n, 4) : n \in QuietLens}
  \cup {ZeroSeries(n) : n \in {5, 200}}
  \cup {PatternSeries(n, 1, p, a, b) :
          n \in PatternLens, p \in {1, KeyLevelSpan}, a \in Shapes, b \in Shapes}

\* ------------------------------------------------------------------------
\* The analytics of one symbol
\* ------------------------------------------------------------------------
InitAnalyze ==
  /\ rawData \in InputSeries
  /\ processedData = <<>>
  /\ analyzedData = <<>>
  /\ keyLevel = 0
  /\ snapshot = NULL
  /\ stage = "fetched"
  /\ RiskIdle
  /\ FetchIdle
  /\ DashboardIdle
  /\ AiIdle
  /\ PairIdle
  /\ PanelIdle

\* step 3: rawData.forEach pushes one candle with its six averages
ProcessStep ==
  /\ stage = "fetched"
  /\ processedData' = ProcessData(rawData)
  /\ stage' = "processed"
  /\ UNCHANGED <<rawData, analyzedData, keyLevel, snapshot, riskVars, fetchVars,
                 dashVars, aiVars, pairVars, panelVars>>

\* step 4: detectPatterns(processedData)
DetectStep ==
  /\ stage = "processed"
  /\ keyLevel' = KeyLevelOf(processedData)
  /\ analyzedData' = detectPatterns(processedData)
  /\ stage' = "analyzed"
  /\ UNCHANGED <<rawData, processedData, snapshot, riskVars, fetchVars,
                 dashVars, aiVars, pairVars, panelVars>>


\* ------------------------------------------------------------------------
\* RiskCalculator
\* ------------------------------------------------------------------------
Sub(x, y) == Rat(x.n * y.d - y.n * x.d, x.d * y.d)
Div(x, y) == Rat(x.n * y.d, x.d * y.n)
\* Math.floor; Infinity and NaN are their own floor
Floor(x) == IF x.d = 0 THEN x ELSE Num(x.n \div x.d)
Ceil(x) == IF x.d = 0 THEN x ELSE Num(-((-x.n) \div x.d))
\* Number(x.toFixed(2)) of a finite x >= 0: the nearest hundredth
ToFixed2(x) == Rat((200 * x.n + x.d) \div (2 * x.d), 100)

\* the guard of calculatePosition: no plan for this stop gap
NoPlanMutant(stopGap) == JsLt(stopGap, Num(0))
NoPlan(stopGap) == JsLe(stopGap, Num(0))

PositionSizeSharesMutant(riskAmount, stopGap) == Ceil(Div(riskAmount, stopGap))
PositionSizeSharesRounded(riskAmount, stopGap) ==
  Floor(Sub(Div(riskAmount, stopGap), Rat(-1, 2)))
PositionSizeShares(riskAmount, stopGap) == Floor(Div(riskAmount, stopGap))

\* the value calculatePosition passes to setResult
calculatePosition(p) ==
  LET riskAmount == Mul(p.totalCapital, Div(p.riskPercent, Num(100)))
      stopGap    == Sub(p.entryPrice, p.stopLossPrice)
  IN  IF NoPlan(stopGap) THEN NULL
      ELSE LET positionSizeShares == PositionSizeShares(riskAmount, stopGap)
               positionSizeLots   == Div(positionSizeShares, Num(1000))
               totalCost          == Mul(positionSizeShares, p.entryPrice)
           IN  [riskAmount         |-> riskAmount,
                positionSizeShares |-> positionSizeShares,
                positionSizeLots   |-> positionSizeLots,
                totalCost          |-> totalCost,
                leverageRequired   |-> JsGt(totalCost, p.totalCapital)]

\* values typed into the four inputs
CapitalInputs == {Num(0), Num(100000), Num(1000000)}
RiskPercentInputs == {Num(-1), Num(0), Rat(1, 2), Num(1), Num(2)}
PriceInputs == {Num(0), Num(95), Num(97), Rat(199, 2), Num(100), Rat(201, 2)}
\* last closes of the stocks that can be selected
LastCloses == {Num(100), Rat(1003, 10), Num(0)}

ParamInputs(key) ==
  CASE key = "totalCapital"  -> CapitalInputs
    [] key = "riskPercent"   -> RiskPercentInputs
    [] key = "entryPrice"    -> PriceInputs
    [] key = "stopLossPrice" -> PriceInputs

\* useState: the component before its effects run
InitRisk ==
  /\ \E lastClose \in LastCloses :
       params = [totalCapital  |-> Num(1000000),
                 riskPercent   |-> Num(1),
                 entryPrice    |-> lastClose,
                 stopLossPrice |-> Mul(lastClose, Rat(95, 100))]
  /\ result = NULL
  /\ mounted = FALSE
  /\ AnalyticsIdle
  /\ FetchIdle
  /\ DashboardIdle
  /\ AiIdle
  /\ PairIdle
  /\ PanelIdle

\* the effect on [selectedStock] followed by the effect on [params]
SelectedStockEffect(lastClose) ==
  /\ params' = [params EXCEPT
                  !.entryPrice = lastClose,
                  !.stopLossPrice = ToFixed2(Mul(lastClose, Rat(95, 100)))]
  /\ result' = calculatePosition(params')

\* first render: both effects run, the second again once params is replaced
Mount ==
  /\ ~mounted
  /\ SelectedStockEffect(params.entryPrice)
  /\ mounted' = TRUE
  /\ UNCHANGED <<analyticsVars, fetchVars,
                 dashVars, aiVars, pairVars, panelVars>>

\* the parent passes another selectedStock
SelectStock ==
  /\ mounted
  /\ \E lastClose \in LastCloses : SelectedStockEffect(lastClose)
  /\ UNCHANGED <<mounted, analyticsVars, fetchVars,
                 dashVars, aiVars, pairVars, panelVars>>

\* handleParamChange(key, value), then the effect on [params]
HandleParamChange ==
  /\ mounted
  /\ \E key \in {"totalCapital", "riskPercent", "entryPrice", "stopLossPrice"} :
       \E value \in ParamInputs(key) :
         params' = [params EXCEPT ![key] = value]
  /\ result' = calculatePosition(params')
  /\ UNCHANGED <<mounted, analyticsVars, fetchVars,
                 dashVars, aiVars, pairVars, panelVars>>

NextRisk == Mount \/ SelectStock \/ HandleParamChange

SpecRisk == InitRisk /\ [][NextRisk]_vars

\* ------------------------------------------------------------------------
\* fetchMarketData
\* ------------------------------------------------------------------------
TARGET_STOCKS ==
  << [code |-> "2330", name |-> "TSMC",       industry |-> "Semiconductor"],
     [code |-> "2317", name |-> "Hon Hai",    industry |-> "EMS"],
     [code |-> "2454", name |-> "MediaTek",   industry |-> "IC design"],
     [code |-> "2603", name |-> "Evergreen",  industry |-> "Shipping"],
     [code |-> "3231", name |-> "Wistron",    industry |-> "AI server"],
     [code |-> "3008", name |-> "Largan",     industry |-> "Optics"],
     [code |-> "3661", name |-> "Alchip-KY",  industry |-> "IC design"],
     [code |-> "3035", name |-> "Faraday",    industry |-> "IC design"] >>

\* positions of the tracked symbols in TARGET_STOCKS
Tracked == 1..Min2(NumStocks, Len(TARGET_STOCKS))

\* a promise that is not settled, and one that is rejected
PENDING == [pending |-> TRUE]
REJECTED == [rejected |-> TRUE]

\* the row pushed for today from a non-empty tick list
RECURSIVE TickFold(_, _, _)
\* high, low and volume after the loop has read ticks[1..i]
TickFold(ticks, i, acc) ==
  IF i > Len(ticks) THEN acc
  ELSE LET price == ticks[i].deal_price
       IN  TickFold(ticks, i + 1,
             [high   |-> IF price > acc.high THEN price ELSE acc.high,
              low    |-> IF price < acc.low THEN price ELSE acc.low,
              volume |-> acc.volume + ticks[i].deal_trading_volume])

TickCandleMutant(ticks, today) ==
  LET open  == ticks[1].deal_price
      close == ticks[Len(ticks)].deal_price
      acc   == TickFold(ticks, 2, [high |-> open, low |-> open, volume |-> 0])
  IN  Row(today, open, acc.high, acc.low, close, acc.volume)
TickCandle(ticks, today) ==
  LET open  == ticks[1].deal_price
      close == ticks[Len(ticks)].deal_price
      acc   == TickFold(ticks, 1, [high |-> open, low |-> open, volume |-> 0])
  IN  Row(today, open, acc.high, acc.low, close, acc.volume)

\* lastCandle.ma200 ? ... : false -- null, 0 and NaN are falsy
Truthy(x) == x # NULL /\ x.n # 0

\* ma ? value > ma : false
IsAboveMutant(value, ma) == ma # NULL /\ JsLe(ma, Num(value))
IsAbove(value, ma) == IF Truthy(ma) THEN JsGt(Num(value), ma) ELSE FALSE

\* the StockData built from analyzedData (the latest values); draw is
\* <<ADR_Percent, RS_Score>>, the two Math.random() metrics
SnapshotOf(stock, analyzed, draw) ==
  LET lastCandle == analyzed[Len(analyzed)]
      prevCandle == IF Len(analyzed) > 1 THEN analyzed[Len(analyzed) - 1]
                    ELSE lastCandle
  IN  [code          |-> stock.code,
       name          |-> stock.name,
       industry      |-> stock.industry,
       data          |-> analyzed,
       lastClose     |-> lastCandle.close,
       change        |-> lastCandle.close - prevCandle.close,
       changePercent |-> Mul(Div(Num(lastCandle.close - prevCandle.close),
                                 Num(prevCandle.close)), Num(100)),
       isAbove200MA  |-> IsAbove(lastCandle.close, lastCandle.ma200),
       isVolAbove5MA |-> IsAbove(lastCandle.volume, lastCandle.volMa5),
       ADR_Percent   |-> draw[1],
       RS_Score      |-> draw[2],
       yearHigh      |-> MaxHigh(analyzed, Len(analyzed))]

\* steps 3 and 4 and the latest values, from rawData
Snapshot(stock, raw, draw) ==
  SnapshotOf(stock, detectPatterns(ProcessData(raw)), draw)

\* what the catch of a symbol's pipeline makes of an error
CaughtMutant == REJECTED
Caught == NULL

\* the provider's answers to the TaiwanStockPrice request
HistorySeries ==
  { << Row(1, 100, 104, 99, 103, 2000), Row(2, 103, 105, 101, 102, 1000) >>,
    << Row(1, 100, 104, 99, 103, 2000), Row(2, 103, 105, 101, 102, 1000),
       Row(3, 101, 106, 100, 105, 3000) >> }
\* the rows of symbol s: each symbol trades at its own prices
SeriesOf(s, h) ==
  LET up == 10 * (s - 1)
  IN  [k \in 1..Len(h) |->
         Row(h[k].date, h[k].open + up, h[k].max + up, h[k].min + up,
             h[k].close + up, h[k].Trading_Volume)]
HistoryResponses(s) ==
  { [kind |-> "throw"], [kind |-> "failed"], [kind |-> "empty"] }
  \cup { [kind |-> "data", data |-> SeriesOf(s, h)] : h \in HistorySeries }

\* the provider's answers to the TaiwanStockTick request
TickLists ==
  << << [deal_price |-> 104, deal_trading_volume |-> 10],
       [deal_price |-> 107, deal_trading_volume |-> 20],
       [deal_price |-> 102, deal_trading_volume |-> 5],
       [deal_price |-> 106, deal_trading_volume |-> 15] >>,
    << [deal_price |-> 105, deal_trading_volume |-> 7],
       [deal_price |-> 101, deal_trading_volume |-> 3] >> >>
\* the ticks of symbol s: each symbol has its own trades
TicksOf(s) == TickLists[((s - 1) % Len(TickLists)) + 1]
TickResponses(s) ==
  { [kind |-> "throw"], [kind |-> "absent"], [kind |-> "empty"],
    [kind |-> "data", ticks |-> TicksOf(s)] }

\* values of <<ADR_Percent, RS_Score>>
RandomDraws == { <<Rat(351, 100), 81>>, <<Rat(35, 10), 80>> }

Todays == {2, 3}

\* the latest values of the analysed series and the StockData returned
SnapshotStep ==
  /\ stage = "analyzed"
  /\ \E draw \in RandomDraws :
       snapshot' = SnapshotOf(TARGET_STOCKS[1], analyzedData, draw)
  /\ stage' = "returned"
  /\ UNCHANGED <<rawData, processedData, analyzedData, keyLevel, riskVars,
                 fetchVars, dashVars, aiVars, pairVars, panelVars>>

NextAnalyze == ProcessStep \/ DetectStep \/ SnapshotStep

SpecAnalyze == InitAnalyze /\ [][NextAnalyze]_vars

\* ------------------------------------------------------------------------
\* detectPatterns on two series that differ in one session
\* ------------------------------------------------------------------------
\* a falling session with a high of 180, above every other high
Spike(k) == Row(k, 170, 180, 165, 168, 7000)

\* lengths below, at and above the span of the key level
PairLens == {3, KeyLevelSpan, KeyLevelSpan + 1, MaxPairLen}

\* the sessions replaced in the second series: the two before the last, the
\* last of the span of the key level and the first after it
SpikeAt(n) == {q \in {n - 2, n - 1, KeyLevelSpan, KeyLevelSpan + 1} : q \in 1..n}

\* a series and the same series with session q replaced
PairOf(series, q) == << series, [series EXCEPT ![q] = Spike(q)] >>

SeriesPairsOf(n) ==
  { PairOf(PatternSeries(n, 1, 1, a, b), q) :
      a \in Shapes, b \in Shapes, q \in SpikeAt(n) }

SeriesPairs == UNION { SeriesPairsOf(n) : n \in PairLens }

InitPair ==
  /\ pairRaw \in SeriesPairs
  /\ pairAnalyzed = <<>>
  /\ pairStage = "fetched"
  /\ AnalyticsIdle
  /\ RiskIdle
  /\ FetchIdle
  /\ DashboardIdle
  /\ AiIdle
  /\ PanelIdle

\* steps 3 and 4 on each of the two series
DetectPair ==
  /\ pairStage = "fetched"
  /\ pairAnalyzed' = [k \in 1..2 |-> detectPatterns(ProcessData(pairRaw[k]))]
  /\ pairStage' = "analyzed"
  /\ UNCHANGED <<pairRaw, analyticsVars, riskVars, fetchVars, dashVars, aiVars,
                 panelVars>>

NextPair == DetectPair

SpecPair == InitPair /\ [][NextPair]_vars

Init ==
  /\ todayStr \in Todays
  /\ batch = "idle"
  /\ pc = [s \in Tracked |-> "idle"]
  /\ fetched = [s \in Tracked |-> <<>>]
  /\ promises = [s \in Tracked |-> PENDING]
  /\ results = <<>>
  /\ historyOutcome = [s \in Tracked |-> "none"]
  /\ tickOutcome = [s \in Tracked |-> "none"]
  /\ tickRequests = [s \in Tracked |-> 0]
  /\ historyData = [s \in Tracked |-> <<>>]
  /\ tickData = [s \in Tracked |-> <<>>]
  /\ AnalyticsIdle
  /\ RiskIdle
  /\ DashboardIdle
  /\ AiIdle
  /\ PairIdle
  /\ PanelIdle

\* fetchMarketData(): every symbol's pipeline runs to its first await
FetchMarketData ==
  /\ batch = "idle"
  /\ batch' = "awaiting"
  /\ pc' = [s \in Tracked |-> "history"]
  /\ UNCHANGED <<todayStr, fetched, promises, results, historyOutcome,
                 tickOutcome, tickRequests, historyData, tickData,
                 analyticsVars, riskVars,
                 dashVars, aiVars, pairVars, panelVars>>

\* if (lastDataPoint.date !== todayStr): the ticks of today are asked for
SnapshotDueMutant(raw, today) == TRUE
SnapshotDue(raw, today) == raw[Len(raw)].date # today

\* rawData.push(todayCandle)
PushMutant(raw, candle) == <<candle>> \o raw
Push(raw, candle) == Append(raw, candle)

\* what catch (snapshotError) does with a failed TaiwanStockTick request:
\* nothing, the pipeline goes on with the rows it has
SnapshotErrorMutant == "rethrown"
SnapshotError == "swallowed"

\* the rawData the pipeline of symbol s resumes with after its await: the
\* array of its own closure
ResumedRowsMutant(f, p, s) ==
  f[CHOOSE t \in DOMAIN p :
      p[t] = "snapshot" /\ \A u \in DOMAIN p : p[u] = "snapshot" => t <= u]
ResumedRows(f, p, s) == f[s]

\* the TaiwanStockPrice request of symbol s ends with response r
HistoryResponds(s, r) ==
  /\ pc[s] = "history"
  /\ historyOutcome' = [historyOutcome EXCEPT ![s] = r.kind]
  /\ IF r.kind = "throw"
     THEN /\ promises' = [promises EXCEPT ![s] = Caught]
          /\ pc' = [pc EXCEPT ![s] = "done"]
          /\ UNCHANGED <<fetched, tickRequests, historyData>>
     ELSE IF r.kind = "failed" \/ r.kind = "empty"
     THEN /\ promises' = [promises EXCEPT ![s] = NULL]
          /\ pc' = [pc EXCEPT ![s] = "done"]
          /\ UNCHANGED <<fetched, tickRequests, historyData>>
     ELSE /\ fetched' = [fetched EXCEPT ![s] = r.data]
          /\ historyData' = [historyData EXCEPT ![s] = r.data]
          /\ IF SnapshotDue(r.data, todayStr)
             THEN /\ tickRequests' = [tickRequests EXCEPT ![s] = @ + 1]
                  /\ pc' = [pc EXCEPT ![s] = "snapshot"]
                  /\ UNCHANGED promises
             ELSE /\ \E draw \in RandomDraws :
                       promises' = [promises EXCEPT
                                      ![s] = Snapshot(TARGET_STOCKS[s], r.data, draw)]
                  /\ pc' = [pc EXCEPT ![s] = "done"]
                  /\ UNCHANGED tickRequests
  /\ UNCHANGED <<todayStr, batch, results, tickOutcome, tickData,
                 analyticsVars, riskVars,
                 dashVars, aiVars, pairVars, panelVars>>

\* the TaiwanStockTick request of symbol s ends with response r
SnapshotResponds(s, r) ==
  /\ pc[s] = "snapshot"
  /\ tickOutcome' = [tickOutcome EXCEPT ![s] = r.kind]
  /\ tickData' = [tickData EXCEPT ![s] = IF r.kind = "data" THEN r.ticks ELSE @]
  /\ pc' = [pc EXCEPT ![s] = "done"]
  /\ IF r.kind = "throw" /\ SnapshotError # "swallowed"
     THEN /\ promises' = [promises EXCEPT ![s] = Caught]
          /\ UNCHANGED fetched
     ELSE /\ fetched' = [fetched EXCEPT
                           ![s] = IF r.kind = "data" /\ Len(r.ticks) > 0
                                  THEN Push(ResumedRows(fetched, pc, s),
                                            TickCandle(r.ticks, todayStr))
                                  ELSE ResumedRows(fetched, pc, s)]
          /\ \E draw \in RandomDraws :
               promises' = [promises EXCEPT
                              ![s] = Snapshot(TARGET_STOCKS[s], fetched'[s], draw)]
  /\ UNCHANGED <<todayStr, batch, results, historyOutcome, tickRequests,
                 historyData, analyticsVars, riskVars,
                 dashVars, aiVars, pairVars, panelVars>>

\* results.filter(item => item !== null)
RECURSIVE FilterNotNull(_, _)
FilterNotNull(ps, i) ==
  IF i > Len(ps) THEN <<>>
  ELSE IF ps[i] = NULL THEN FilterNotNull(ps, i + 1)
  ELSE <<ps[i]>> \o FilterNotNull(ps, i + 1)

\* await Promise.all(stockPromises) settles
PromiseAll ==
  /\ batch = "awaiting"
  /\ \/ \E s \in Tracked : promises[s] = REJECTED
     \/ \A s \in Tracked : promises[s] # PENDING
  /\ IF \E s \in Tracked : promises[s] = REJECTED
     THEN /\ batch' = "rejected"
          /\ UNCHANGED results
     ELSE /\ batch' = "returned"
          /\ results' = FilterNotNull(promises, 1)
  /\ UNCHANGED <<todayStr, pc, fetched, promises, historyOutcome, tickOutcome,
                 tickRequests, historyData, tickData, analyticsVars, riskVars,
                 dashVars, aiVars, pairVars, panelVars>>

Next ==
  \/ FetchMarketData
  \/ \E s \in Tracked : \E r \in HistoryResponses(s) : HistoryResponds(s, r)
  \/ \E s \in Tracked : \E r \in TickResponses(s) : SnapshotResponds(s, r)
  \/ PromiseAll

Spec == Init /\ [][Next]_vars

\* ------------------------------------------------------------------------
\* Dashboard: the strict filter over the list of the query
\* ------------------------------------------------------------------------
\* the predicate of stocks.filter when the filter is on
PassesFilterMutant(s) ==
  /\ s.isAbove200MA
  /\ s.isVolAbove5MA
  /\ JsGt(s.ADR_Percent, Rat(35, 10))
  /\ JsLe(Num(80), Num(s.RS_Score))
  /\ JsLe(Mul(Num(s.yearHigh), Rat(85, 100)), Num(s.lastClose))
PassesFilter(s) ==
  /\ s.isAbove200MA
  /\ s.isVolAbove5MA
  /\ JsGt(s.ADR_Percent, Rat(35, 10))
  /\ JsGt(Num(s.RS_Score), Num(80))
  /\ JsLe(Mul(Num(s.yearHigh), Rat(85, 100)), Num(s.lastClose))

\* useMemo(() => filterEnabled ? stocks.filter(...) : stocks)
FilteredStocks(list, enabled) ==
  IF enabled THEN SelectSeq(list, PassesFilter) ELSE list

\* the fields of a StockData the Dashboard's list reads; the candles and the
\* day's change, which the filter does not read, are left out
Listed(stock, above, vol, adr, rs, price) ==
  [code          |-> stock.code,
   name          |-> stock.name,
   industry      |-> stock.industry,
   lastClose     |-> price[1],
   isAbove200MA  |-> above,
   isVolAbove5MA |-> vol,
   ADR_Percent   |-> adr,
   RS_Score      |-> rs,
   yearHigh      |-> price[2]]

\* <<lastClose, yearHigh>>: at 85% of the high and one tick below
ListedPrices == { <<850, 1000>>, <<849, 1000>> }
ListedADR == { Rat(35, 10), Rat(351, 100) }
ListedRS == { 80, 81 }

\* every combination of the five values the filter reads
ListedAny(stock) ==
  { Listed(stock, above, vol, adr, rs, price) :
      above \in BOOLEAN, vol \in BOOLEAN, adr \in ListedADR, rs \in ListedRS,
      price \in ListedPrices }
\* a StockData that passes and one that fails on ADR_Percent alone
ListedTwo(stock) ==
  { Listed(stock, TRUE, TRUE, adr, 81, <<850, 1000>>) : adr \in ListedADR }

RECURSIVE ListsOf(_)
\* the lists of the first n tracked symbols
ListsOf(n) ==
  IF n = 0 THEN { <<>> }
  ELSE IF n = 1 THEN { <<x>> : x \in ListedAny(TARGET_STOCKS[1]) }
  ELSE { Append(list, x) : list \in ListsOf(n - 1),
                           x \in ListedTwo(TARGET_STOCKS[n]) }

\* the lists the query may hold: a prefix of the tracked symbols
StockLists == UNION { ListsOf(n) : n \in 0..Cardinality(Tracked) }

InitDashboard ==
  /\ stocks = <<>>
  /\ filterEnabled = TRUE
  /\ filteredStocks = <<>>
  /\ AnalyticsIdle
  /\ RiskIdle
  /\ FetchIdle
  /\ AiIdle
  /\ PairIdle
  /\ PanelIdle

\* the query brings a list; the memo of filteredStocks is recomputed
QueryData(list) ==
  /\ stocks' = list
  /\ filteredStocks' = FilteredStocks(list, filterEnabled)
  /\ UNCHANGED <<filterEnabled, analyticsVars, riskVars, fetchVars, aiVars,
                 pairVars, panelVars>>

\* onClick={() => setFilterEnabled(!filterEnabled)}
ToggleFilter ==
  /\ filterEnabled' = ~filterEnabled
  /\ filteredStocks' = FilteredStocks(stocks, filterEnabled')
  /\ UNCHANGED <<stocks, analyticsVars, riskVars, fetchVars, aiVars,
                 pairVars, panelVars>>

NextDashboard ==
  \/ \E list \in StockLists : QueryData(list)
  \/ ToggleFilter

SpecDashboard == InitDashboard /\ [][NextDashboard]_vars

\* ------------------------------------------------------------------------
\* analyzeChartPattern (src/services/geminiService.ts)
\* ------------------------------------------------------------------------
Error(name, message) == [name |-> name, message |-> message]

\* how initGenAI() ends: it returns a client, process is not defined, or the
\* constructor of GoogleGenAI throws
Constructions ==
  { [ok |-> TRUE],
    [ok |-> FALSE, error |-> Error("ReferenceError", "process is not defined")],
    [ok |-> FALSE, error |-> Error("Error", "An API Key must be set")] }

\* data.slice(-30)
SliceLast(data, n) ==
  IF Len(data) <= n THEN data ELSE SubSeq(data, Len(data) - n + 1, Len(data))

\* the candles written into the prompt
RecentData(data) ==
  LET recent == SliceLast(data, 30)
  IN  [k \in 1..Len(recent) |->
         [d |-> recent[k].date, o |-> recent[k].open, h |-> recent[k].high,
          l |-> recent[k].low, c |-> recent[k].close, v |-> recent[k].volume,
          ma20 |-> recent[k].ma20, ma200 |-> recent[k].ma200]]

\* response.text of the answers tried: empty, cut short, no JSON, the JSON
\* null and two assessments
BullishText ==
  "{\"sentiment\":\"Bullish\",\"pattern\":\"flag\",\"explanation\":\"tight\",\"score\":82}"
BearishText ==
  "{\"sentiment\":\"Bearish\",\"pattern\":\"top\",\"explanation\":\"weak\",\"score\":20}"
ResponseTexts ==
  { "", "{\"sentiment\":\"Bullish\"", "Service Unavailable", "null",
    BullishText, BearishText }

\* JSON.parse on the texts tried: the value, or the SyntaxError thrown
JsonParse(text) ==
  CASE text = BullishText ->
         [ok |-> TRUE,
          value |-> [sentiment |-> "Bullish", pattern |-> "flag",
                     explanation |-> <<"tight">>, score |-> 82]]
    [] text = BearishText ->
         [ok |-> TRUE,
          value |-> [sentiment |-> "Bearish", pattern |-> "top",
                     explanation |-> <<"weak">>, score |-> 20]]
    [] text = "null" -> [ok |-> TRUE, value |-> NULL]
    [] text = "{\"sentiment\":\"Bullish\"" ->
         [ok |-> FALSE,
          error |-> Error("SyntaxError", "Unexpected end of JSON input")]
    [] OTHER ->
         [ok |-> FALSE,
          error |-> Error("SyntaxError", "Unexpected token S in JSON")]

\* how ai.models.generateContent settles
AiResponses ==
  { [kind |-> "rejects", error |-> e] :
      e \in { Error("TypeError", "Failed to fetch"),
              Error("ApiError", "API key not valid") } }
  \cup { [kind |-> "response"] }
  \cup { [kind |-> "response", text |-> t] : t \in ResponseTexts }

\* if (response.text): the response has a text and it is not empty
HasText(r) == "text" \in DOMAIN r /\ r.text # ""

\* the object the catch returns
Placeholder(error) ==
  [sentiment   |-> "Neutral",
   pattern     |-> "analysis service unavailable",
   explanation |-> <<"check the API key or the network (", error.message, ")">>,
   score       |-> 0]

\* the arguments of a call: the name of a symbol and its candles
AiSymbols == { TARGET_STOCKS[t].name : t \in 1..Len(TARGET_STOCKS) }
AiData ==
  { detectPatterns(ProcessData(h)) : h \in HistorySeries \cup {FillerSeries(31, 1)} }

InitAI ==
  /\ aiCall = "idle"
  /\ aiPrompt = NULL
  /\ aiOutcome = NULL
  /\ aiValue = NULL
  /\ AnalyticsIdle
  /\ RiskIdle
  /\ FetchIdle
  /\ DashboardIdle
  /\ PairIdle
  /\ PanelIdle

\* analyzeChartPattern(symbol, data) up to its await: initGenAI(), recentData
\* and the prompt come before the try
AnalyzeChartPattern(symbol, data, built) ==
  /\ aiCall = "idle"
  /\ IF built.ok
     THEN /\ aiPrompt' = [symbol |-> symbol, recentData |-> RecentData(data)]
          /\ aiCall' = "awaiting"
          /\ UNCHANGED <<aiOutcome, aiValue>>
     ELSE /\ aiCall' = "rejected"
          /\ aiOutcome' = built
          /\ aiValue' = built.error
          /\ UNCHANGED aiPrompt
  /\ UNCHANGED <<analyticsVars, riskVars, fetchVars, dashVars,
                 pairVars, panelVars>>

\* what analyzeChartPattern returns once generateContent settles with r:
\* the rest of the try, or the catch
Returned(r) ==
  IF r.kind = "rejects" THEN Placeholder(r.error)
  ELSE IF HasText(r)
  THEN LET parsed == JsonParse(r.text)
       IN  IF parsed.ok THEN parsed.value ELSE Placeholder(parsed.error)
  ELSE Placeholder(Error("Error", "Empty response from AI"))

\* generateContent settles with r
GenerateContentSettles(r) ==
  /\ aiCall = "awaiting"
  /\ aiOutcome' = r
  /\ aiCall' = "returned"
  /\ aiValue' = Returned(r)
  /\ UNCHANGED <<aiPrompt, analyticsVars, riskVars, fetchVars, dashVars,
                 pairVars, panelVars>>

NextAI ==
  \/ \E symbol \in AiSymbols : \E data \in AiData : \E built \in Constructions :
       AnalyzeChartPattern(symbol, data, built)
  \/ \E r \in AiResponses : GenerateContentSettles(r)

SpecAI == InitAI /\ [][NextAI]_vars

\* ------------------------------------------------------------------------
\* The Dashboard's selection and its AI panel
\* ------------------------------------------------------------------------
\* a StockData of the t-th tracked symbol that passes the strict filter, and
\* one that fails it
Passing(t) == Listed(TARGET_STOCKS[t], TRUE, TRUE, Rat(351, 100), 81, <<850, 1000>>)
Failing(t) == Listed(TARGET_STOCKS[t], TRUE, TRUE, Rat(35, 10), 81, <<850, 1000>>)

\* the lists the query brings: none, every tracked symbol, the first one
\* failing the filter, all failing it, and the first one missing
PanelLists ==
  LET n == Cardinality(Tracked)
  IN  { <<>>,
        [t \in 1..n |-> Passing(t)],
        [t \in 1..n |-> IF t = 1 THEN Failing(t) ELSE Passing(t)],
        [t \in 1..n |-> Failing(t)],
        [t \in 1..(n - 1) |-> Passing(t + 1)] }

\* how generateContent settles in the panel's runs: the request fails, the
\* answer is the JSON null, the answer is an assessment
PanelResponses ==
  { r \in AiResponses :
      \/ r.kind = "rejects" /\ r.error.name = "TypeError"
      \/ HasText(r) /\ r.text \in {"null", BullishText} }

Codes(list) == { list[k].code : k \in 1..Len(list) }

\* stocks.find(s => s.code === selectedCode) || null
SelectedStock(list, code) ==
  IF code \in Codes(list)
  THEN list[CHOOSE k \in 1..Len(list) :
              /\ list[k].code = code
              /\ \A j \in 1..(k - 1) : list[j].code # code]
  ELSE NULL

\* the effect on [stocks, filteredStocks, selectedCode]: the code selected
\* after it
InitialSelection(list, filtered, code) ==
  IF code = NOCODE /\ Len(list) > 0
  THEN (IF Len(filtered) > 0 THEN filtered[1] ELSE list[1]).code
  ELSE code

\* the effect on [selectedCode]: it runs when the code selected changes
ResetAiEffect ==
  IF selectedCode' # selectedCode
  THEN /\ aiStatus' = "IDLE"
       /\ aiResult' = NULL
       /\ aiResultOf' = NOCODE
  ELSE UNCHANGED <<aiStatus, aiResult, aiResultOf>>

InitPanel ==
  /\ stocks = <<>>
  /\ filterEnabled = TRUE
  /\ filteredStocks = <<>>
  /\ PanelIdle
  /\ AnalyticsIdle
  /\ RiskIdle
  /\ FetchIdle
  /\ AiIdle
  /\ PairIdle

\* the query brings a list; the memos and the two effects follow
PanelQueryData(list) ==
  /\ stocks' = list
  /\ filteredStocks' = FilteredStocks(list, filterEnabled)
  /\ selectedCode' = InitialSelection(list, filteredStocks', selectedCode)
  /\ ResetAiEffect
  /\ UNCHANGED <<filterEnabled, analyses, analyticsVars, riskVars, fetchVars,
                 aiVars, pairVars>>

\* onClick={() => setFilterEnabled(!filterEnabled)}, the memo and the effects
PanelToggleFilter ==
  /\ filterEnabled' = ~filterEnabled
  /\ filteredStocks' = FilteredStocks(stocks, filterEnabled')
  /\ selectedCode' = InitialSelection(stocks, filteredStocks', selectedCode)
  /\ ResetAiEffect
  /\ UNCHANGED <<stocks, analyses, analyticsVars, riskVars, fetchVars,
                 aiVars, pairVars>>

\* handleStockSelect(code) on a row of the list, and the effect on
\* [selectedCode]
HandleStockSelect(code) ==
  /\ code \in Codes(filteredStocks)
  /\ selectedCode' = code
  /\ ResetAiEffect
  /\ UNCHANGED <<dashVars, analyses, analyticsVars, riskVars, fetchVars,
                 aiVars, pairVars>>

\* handleAiAnalysis() up to its await; the button is there while a stock is
\* selected and enabled unless aiStatus is LOADING.  When initGenAI() throws,
\* analyzeChartPattern rejects and the handler ends at its await.
HandleAiAnalysis(built) ==
  /\ SelectedStock(stocks, selectedCode) # NULL
  /\ aiStatus # "LOADING"
  /\ Len(analyses) < MaxInFlight
  /\ aiStatus' = "LOADING"
  /\ analyses' =
       IF built.ok
       THEN Append(analyses,
                   [code |-> selectedCode,
                    name |-> SelectedStock(stocks, selectedCode).name])
       ELSE analyses
  /\ UNCHANGED <<selectedCode, aiResult, aiResultOf, dashVars, analyticsVars,
                 riskVars, fetchVars, aiVars, pairVars>>

\* generateContent of the k-th call in flight settles with r: the handler
\* resumes after its await
AnalysisSettles(k, r) ==
  /\ k \in 1..Len(analyses)
  /\ aiResult' = Returned(r)
  /\ aiStatus' = "SUCCESS"
  /\ aiResultOf' = analyses[k].code
  /\ analyses' = [j \in 1..(Len(analyses) - 1) |->
                    IF j < k THEN analyses[j] ELSE analyses[j + 1]]
  /\ UNCHANGED <<selectedCode, dashVars, analyticsVars, riskVars, fetchVars,
                 aiVars, pairVars>>

Settles == \E k \in 1..MaxInFlight : \E r \in PanelResponses : AnalysisSettles(k, r)

NextPanel ==
  \/ \E list \in PanelLists : PanelQueryData(list)
  \/ PanelToggleFilter
  \/ \E code \in Codes(filteredStocks) : HandleStockSelect(code)
  \/ \E built \in Constructions : HandleAiAnalysis(built)
  \/ Settles

SpecPanel == InitPanel /\ [][NextPanel]_vars

\* every generateContent request ends: a call in flight settles
SpecPanelFair == SpecPanel /\ WF_vars(Settles)

\* ------------------------------------------------------------------------
\* Properties of the indicators
\* ------------------------------------------------------------------------
PriceWindows == {5, 10, 20, 50, 200}

MaField(c, W) ==
  CASE W = 5   -> c.ma5
    [] W = 10  -> c.ma10
    [] W = 20  -> c.ma20
    [] W = 50  -> c.ma50
    [] W = 200 -> c.ma200

RECURSIVE CloseTotal(_, _, _)
\* sum of the closes of the candles lo..hi of a series
CloseTotal(series, lo, hi) ==
  IF lo > hi THEN 0
  ELSE IF hi - lo < 8 THEN series[lo].close + CloseTotal(series, lo + 1, hi)
  ELSE CloseTotal(series, lo, lo + 7) + CloseTotal(series, lo + 8, hi)

RECURSIVE VolumeTotal(_, _, _)
VolumeTotal(series, lo, hi) ==
  IF lo > hi THEN 0 ELSE series[lo].volume + VolumeTotal(series, lo + 1, hi)

\* ma is the mean total / W
IsMean(ma, total, W) == ma.d > 0 /\ ma.n * W = ma.d * total

\* position i of a series is index i - 1 of the array
AveragesRight(series) ==
  \A i \in 1..Len(series) :
    /\ \A W \in PriceWindows :
         LET ma == MaField(series[i], W)
         IN  /\ (ma # NULL) <=> (i - 1 >= W - 1)
             /\ (ma # NULL) => IsMean(ma, CloseTotal(series, i - W + 1, i), W)
    /\ LET vma == series[i].volMa5
       IN  /\ (vma # NULL) <=> (i - 1 >= 5 - 1)
           /\ (vma # NULL) => IsMean(vma, VolumeTotal(series, i - 5 + 1, i), 5)

\* C1: the moving average of window W annotated at index i is defined iff
\* i >= W - 1, and then it is the arithmetic mean of the W values at the
\* indices i-W+1..i (closes for W in {5,10,20,50,200}, volumes for W = 5).
C1_MovingAverage ==
  /\ stage # "fetched" =>
       /\ Len(processedData) = Len(rawData)
       /\ AveragesRight(processedData)
  /\ stage = "analyzed" =>
       /\ Len(analyzedData) = Len(rawData)
       /\ AveragesRight(analyzedData)

\* a series whose 200-period average starts at index 199, with a 5-period
\* average that is no whole number
C1_Witness ==
  /\ stage = "analyzed"
  /\ Len(analyzedData) > 200
  /\ analyzedData[199].ma200 = NULL
  /\ analyzedData[200].ma200 # NULL
  /\ analyzedData[201].ma200 # analyzedData[200].ma200
  /\ analyzedData[5].ma5.d > 1
  /\ analyzedData[4].volMa5 = NULL
  /\ analyzedData[5].volMa5 # NULL

\* ------------------------------------------------------------------------
\* Properties of the signals
\* ------------------------------------------------------------------------
SignalFields == {"isPinBar", "isEngulfing", "isRSFlip", "signalType"}

\* the maximum high of the first 50 candles of a series of more than 50, else 0
Resistance(series) ==
  IF Len(series) > 50
  THEN LET highs == {series[j].high : j \in 1..50}
       IN  CHOOSE h \in highs : \A x \in highs : x <= h
  ELSE 0

\* |low - level| / level < 0.02, for a level that is not negative; the
\* quotient by a zero level is no number below 0.02
WithinTwoPercent(low, level) ==
  level > 0 /\ 100 * Abs(low - level) < 2 * level

\* C5: candle 0 carries no signal field; every later candle carries the
\* four of them, its signalType is BUY, SELL or null, and it is never SELL.
C5_SignalFields ==
  stage = "analyzed" =>
    /\ Len(analyzedData) = Len(processedData)
    /\ DOMAIN analyzedData[1] \cap SignalFields = {}
    /\ \A i \in 2..Len(analyzedData) :
         /\ SignalFields \subseteq DOMAIN analyzedData[i]
         /\ analyzedData[i].isPinBar \in BOOLEAN
         /\ analyzedData[i].isEngulfing \in BOOLEAN
         /\ analyzedData[i].isRSFlip \in BOOLEAN
         /\ analyzedData[i].signalType \in {"BUY", "SELL", NOSIGNAL}
         /\ analyzedData[i].signalType # "SELL"

\* a series of more than 50 candles with a BUY and, elsewhere, no signal
C5_Witness ==
  /\ stage = "analyzed"
  /\ Len(analyzedData) > 50
  /\ analyzedData[Len(analyzedData)].signalType = "BUY"
  /\ analyzedData[2].signalType = NOSIGNAL

\* C6: isPinBar iff range > 0, lowerWick > 0.6 range, body < 0.25 range and
\* upperWick < 0.15 range.
C6_PinBar ==
  stage = "analyzed" =>
    \A i \in 2..Len(analyzedData) :
      LET c == analyzedData[i]
          range     == c.high - c.low
          body      == IF c.open > c.close THEN c.open - c.close
                       ELSE c.close - c.open
          upperWick == c.high - (IF c.open > c.close THEN c.open ELSE c.close)
          lowerWick == (IF c.open < c.close THEN c.open ELSE c.close) - c.low
      IN  c.isPinBar <=>
            /\ range > 0
            /\ 10 * lowerWick > 6 * range
            /\ 100 * body < 25 * range
            /\ 100 * upperWick < 15 * range

\* the candle open 10, high 10.3, low 9.0, close 10.2 is flagged, the one
\* before it, whose body is a quarter of its range, is not
C6_Witness ==
  /\ stage = "analyzed"
  /\ Len(analyzedData) >= 3
  /\ LET c == analyzedData[Len(analyzedData)]
         b == analyzedData[Len(analyzedData) - 1]
     IN  /\ c.open = 100 /\ c.close = 102 /\ c.high = 103 /\ c.low = 90
         /\ c.isPinBar
         /\ 4 * Abs(b.open - b.close) = b.high - b.low
         /\ b.high > b.low
         /\ ~b.isPinBar

\* C7: isEngulfing iff the previous candle fell, the current one rose, the
\* current open is below the previous close and the current close above
\* the previous open.
C7_Engulfing ==
  stage = "analyzed" =>
    \A i \in 2..Len(analyzedData) :
      LET c == analyzedData[i]
          q == analyzedData[i - 1]
      IN  c.isEngulfing <=>
            /\ q.close < q.open
            /\ c.close > c.open
            /\ c.open < q.close
            /\ c.close > q.open

\* previous 10 -> 9, current 8.9 -> 10.1 is flagged
C7_Witness ==
  /\ stage = "analyzed"
  /\ Len(analyzedData) >= 2
  /\ LET c == analyzedData[Len(analyzedData)]
         q == analyzedData[Len(analyzedData) - 1]
     IN  /\ q.open = 100 /\ q.close = 90
         /\ c.open = 89 /\ c.close = 101
         /\ c.isEngulfing

\* C8: isRSFlip iff the low is within 2% of the key level and the candle
\* is a pin bar or an engulfing candle.
C8_RSFlip ==
  stage = "analyzed" =>
    \A i \in 2..Len(analyzedData) :
      LET c == analyzedData[i]
      IN  c.isRSFlip <=>
            /\ WithinTwoPercent(c.low, Resistance(analyzedData))
            /\ (c.isPinBar \/ c.isEngulfing)

\* a flip by an engulfing candle that is no pin bar, after a candle near
\* the level that is neither
C8_Witness ==
  /\ stage = "analyzed"
  /\ Len(analyzedData) > 50
  /\ LET c == analyzedData[Len(analyzedData)]
         q == analyzedData[Len(analyzedData) - 1]
     IN  /\ c.isRSFlip /\ c.isEngulfing /\ ~c.isPinBar
         /\ WithinTwoPercent(q.low, Resistance(analyzedData))
         /\ ~q.isRSFlip

\* C9: signalType is BUY if the candle is a resistance flip, or a pin bar
\* near the key level, or an engulfing candle near the key level, and null
\* otherwise; so it is BUY iff isRSFlip.
C9_SignalType ==
  stage = "analyzed" =>
    \A i \in 2..Len(analyzedData) :
      LET c == analyzedData[i]
          near == WithinTwoPercent(c.low, Resistance(analyzedData))
      IN  /\ c.signalType =
               IF c.isRSFlip \/ (c.isPinBar /\ near) \/ (c.isEngulfing /\ near)
               THEN "BUY" ELSE NOSIGNAL
          /\ (c.signalType = "BUY") <=> c.isRSFlip

\* a BUY on a pin bar near the level, after a pin bar away from it with none
C9_Witness ==
  /\ stage = "analyzed"
  /\ Len(analyzedData) > 50
  /\ LET c == analyzedData[Len(analyzedData)]
         q == analyzedData[Len(analyzedData) - 1]
     IN  /\ c.isPinBar /\ c.signalType = "BUY"
         /\ q.isPinBar /\ q.signalType = NOSIGNAL

\* C10: the key level is the maximum high of the first 50 candles of a
\* series of more than 50 candles and 0 otherwise; with 50 candles or fewer
\* no candle is a resistance flip or a BUY, and a zero key level fails the
\* proximity test of every candle.
C10_KeyLevel ==
  stage = "analyzed" =>
    /\ keyLevel = Resistance(processedData)
    /\ Len(processedData) > 50 =>
         /\ \A j \in 1..50 : processedData[j].high <= keyLevel
         /\ \E j \in 1..50 : processedData[j].high = keyLevel
    /\ Len(processedData) <= 50 => keyLevel = 0
    /\ keyLevel = 0 =>
         \A i \in 2..Len(analyzedData) :
           /\ ~analyzedData[i].isRSFlip
           /\ analyzedData[i].signalType = NOSIGNAL

\* 50 candles ending with a candle whose low is 0 and a pin bar
C10_Witness ==
  /\ stage = "analyzed"
  /\ Len(analyzedData) = 50
  /\ keyLevel = 0
  /\ analyzedData[49].low = 0
  /\ analyzedData[50].isPinBar
  /\ ~analyzedData[50].isRSFlip

\* ------------------------------------------------------------------------
\* Properties of the position size
\* ------------------------------------------------------------------------
\* x <= y and x < y of finite numbers
LeqNum(x, y) == x.n * y.d <= y.n * x.d
LessNum(x, y) == x.n * y.d < y.n * x.d
IsFinite(x) == x.d > 0

\* C3: there is no plan (result is null) whenever entryPrice - stopLossPrice
\* is <= 0, entry = stop included, and there is a plan whenever it is > 0.
C3_NoPlan ==
  mounted =>
    /\ LeqNum(params.entryPrice, params.stopLossPrice) => result = NULL
    /\ LessNum(params.stopLossPrice, params.entryPrice) => result # NULL

\* entry 100 and stop 100: no plan
C3_Witness ==
  /\ mounted
  /\ params.entryPrice = Num(100)
  /\ params.stopLossPrice = Num(100)
  /\ result = NULL

\* C4: a plan has riskAmount = capital * riskPercent / 100,
\* shares = floor(riskAmount / stopGap), lots = shares / 1000,
\* totalCost = shares * entry, and overCapital iff totalCost > capital.
C4_Plan ==
  (mounted /\ result # NULL) =>
    LET cap    == params.totalCapital
        pct    == params.riskPercent
        entry  == params.entryPrice
        stop   == params.stopLossPrice
        shares == result.positionSizeShares
        \* riskAmount / stopGap as the fraction qn / qd, qd > 0
        qn == cap.n * pct.n * entry.d * stop.d
        qd == 100 * cap.d * pct.d * (entry.n * stop.d - stop.n * entry.d)
    IN  /\ IsFinite(result.riskAmount)
        /\ result.riskAmount.n * 100 * cap.d * pct.d
             = result.riskAmount.d * cap.n * pct.n
        /\ shares.d = 1
        /\ shares.n * qd <= qn
        /\ qn < (shares.n + 1) * qd
        /\ IsFinite(result.positionSizeLots)
        /\ result.positionSizeLots.n * 1000 = result.positionSizeLots.d * shares.n
        /\ IsFinite(result.totalCost)
        /\ result.totalCost.n * entry.d = result.totalCost.d * shares.n * entry.n
        /\ result.leverageRequired <=> LessNum(cap, result.totalCost)

\* capital 1,000,000, risk 1%, entry 100, stop 95
C4_Witness ==
  /\ mounted
  /\ params = [totalCapital |-> Num(1000000), riskPercent |-> Num(1),
               entryPrice |-> Num(100), stopLossPrice |-> Num(95)]
  /\ result = [riskAmount |-> Num(10000), positionSizeShares |-> Num(2000),
               positionSizeLots |-> Num(2), totalCost |-> Num(200000),
               leverageRequired |-> FALSE]

\* C22: whenever there is a plan and its riskAmount is >= 0, the share count
\* is an integer >= 0 with shares * stopGap <= riskAmount
\* < (shares + 1) * stopGap: the loss at the stop stays within the budget.
C22_WithinBudget ==
  (mounted /\ result # NULL /\ LeqNum(Num(0), result.riskAmount)) =>
    LET stopGap == Sub(params.entryPrice, params.stopLossPrice)
        shares  == result.positionSizeShares
    IN  /\ LessNum(Num(0), stopGap)
        /\ IsFinite(shares)
        /\ shares.d = 1
        /\ shares.n >= 0
        /\ LeqNum(Mul(shares, stopGap), result.riskAmount)
        /\ LessNum(result.riskAmount, Mul(Sub(shares, Num(-1)), stopGap))

\* capital 1,000,000, risk 0.5%, entry 100, stop 97: 5000 / 3 rounds down to
\* 1666 shares, which lose 4998 at the stop
C22_Witness ==
  /\ mounted
  /\ result # NULL
  /\ params.entryPrice = Num(100)
  /\ params.stopLossPrice = Num(97)
  /\ result.riskAmount = Num(5000)
  /\ result.positionSizeShares = Num(1666)

\* a negative risk percentage gives a plan with a negative share count
C22_WitnessNegative ==
  /\ mounted
  /\ result # NULL
  /\ LessNum(result.riskAmount, Num(0))
  /\ result.positionSizeShares.n < 0

\* ------------------------------------------------------------------------
\* Properties of the batch
\* ------------------------------------------------------------------------
\* the tracked symbols whose TaiwanStockPrice request brought candles
Succeeded == {s \in Tracked : historyOutcome[s] = "data"}

\* C2: whichever symbols' end-of-day fetch throws, reports no success or
\* brings no row, fetchMarketData resolves (it never rejects) to exactly the
\* snapshots of the other symbols, in the order of TARGET_STOCKS.
C2_BatchResilience ==
  /\ batch # "rejected"
  /\ batch = "returned" =>
       /\ Len(results) = Cardinality(Succeeded)
       /\ \A i \in 1..Len(results) :
            \E s \in Succeeded :
              /\ results[i] = promises[s]
              /\ results[i].code = TARGET_STOCKS[s].code
              /\ Cardinality({t \in Succeeded : t < s}) = i - 1

\* the second symbol's fetch threw, the first and the third are returned
C2_Witness ==
  /\ batch = "returned"
  /\ historyOutcome[1] = "data"
  /\ historyOutcome[2] = "throw"
  /\ historyOutcome[3] = "data"
  /\ Len(results) = 2
  /\ results[1].code = "2330"
  /\ results[2].code = "2454"

\* a symbol with an empty payload and one with a failure message are dropped
C2_WitnessEmpty ==
  /\ batch = "returned"
  /\ historyOutcome[1] = "empty"
  /\ historyOutcome[2] = "data"
  /\ historyOutcome[3] = "failed"
  /\ Len(results) = 1
  /\ results[1].code = "2317"

\* ------------------------------------------------------------------------
\* Properties of the merge of the end-of-day rows with today's ticks
\* ------------------------------------------------------------------------
\* the symbols whose pipeline has returned a StockData
Snapshotted ==
  {s \in Tracked : pc[s] = "done" /\ historyOutcome[s] = "data"
                                  /\ promises[s] \notin {NULL, REJECTED, PENDING}}

LastDate(rows) == rows[Len(rows)].date

\* candle c carries the six values of the provider's row d
SameCandle(c, d) ==
  /\ c.date = d.date
  /\ c.open = d.open
  /\ c.high = d.max
  /\ c.low = d.min
  /\ c.close = d.close
  /\ c.volume = d.Trading_Volume

\* C11: when the last end-of-day candle's date equals today, the series of
\* the symbol is the end-of-day series exactly: no tick is asked for, nothing
\* is appended, duplicated or altered.
C11_TodayAlreadyThere ==
  \A s \in Tracked :
    (historyOutcome[s] = "data" /\ LastDate(historyData[s]) = todayStr) =>
      /\ pc[s] = "done"
      /\ tickRequests[s] = 0
      /\ tickOutcome[s] = "none"
      /\ fetched[s] = historyData[s]
      /\ s \in Snapshotted
      /\ Len(promises[s].data) = Len(historyData[s])
      /\ \A i \in 1..Len(historyData[s]) :
           SameCandle(promises[s].data[i], historyData[s][i])

\* the first symbol's rows end on day 3, which is today
C11_Witness ==
  /\ todayStr = 3
  /\ historyOutcome[1] = "data"
  /\ Len(historyData[1]) = 3
  /\ LastDate(historyData[1]) = 3
  /\ 1 \in Snapshotted
  /\ promises[1].data[3].date = 3
  /\ promises[1].data[3].close = 105

RECURSIVE SizeTotal(_, _)
\* sum of the sizes of the ticks 1..n of a list
SizeTotal(list, n) ==
  IF n = 0 THEN 0 ELSE SizeTotal(list, n - 1) + list[n].deal_trading_volume

TickPrices(list) == {list[i].deal_price : i \in 1..Len(list)}

\* C12: when the last end-of-day date is not today and the tick list is not
\* empty, exactly one candle dated today is appended; its open is the first
\* tick price, its close the last, its high the greatest and its low the
\* least of all tick prices, its volume the sum of the tick sizes; so
\* low <= min(open, close) and high >= max(open, close).
C12_TodayCandle ==
  \A s \in Tracked :
    (tickOutcome[s] = "data" /\ Len(tickData[s]) > 0) =>
      LET list == tickData[s]
          rows == fetched[s]
          row  == rows[Len(rows)]
          c    == promises[s].data[Len(promises[s].data)]
      IN  /\ LastDate(historyData[s]) # todayStr
          /\ Len(rows) = Len(historyData[s]) + 1
          /\ \A i \in 1..Len(historyData[s]) : rows[i] = historyData[s][i]
          /\ row.date = todayStr
          /\ row.open = list[1].deal_price
          /\ row.close = list[Len(list)].deal_price
          /\ row.max \in TickPrices(list)
          /\ \A p \in TickPrices(list) : p <= row.max
          /\ row.min \in TickPrices(list)
          /\ \A p \in TickPrices(list) : p >= row.min
          /\ row.Trading_Volume = SizeTotal(list, Len(list))
          /\ row.min <= Min2(row.open, row.close)
          /\ row.max >= Max2(row.open, row.close)
          /\ s \in Snapshotted
          /\ Len(promises[s].data) = Len(rows)
          /\ SameCandle(c, row)

\* ticks 104, 107, 102, 106 of sizes 10, 20, 5, 15 after two end-of-day rows
C12_Witness ==
  /\ todayStr = 3
  /\ tickOutcome[1] = "data"
  /\ Len(tickData[1]) = 4
  /\ Len(historyData[1]) = 2
  /\ 1 \in Snapshotted
  /\ promises[1].data[3] # promises[1].data[2]
  /\ promises[1].data[3].date = 3
  /\ promises[1].data[3].open = 104
  /\ promises[1].data[3].high = 107
  /\ promises[1].data[3].low = 102
  /\ promises[1].data[3].close = 106
  /\ promises[1].data[3].volume = 50

\* the dates of a series grow from each candle to the next
Ascending(series) ==
  \A i \in 1..Len(series) : \A j \in 1..Len(series) :
    i < j => series[i].date < series[j].date

\* C13: for every end-of-day input strictly ascending by date, and every
\* value of today, the merged series is strictly ascending by date with
\* unique dates: the candle of today is never placed after a later candle.
C13_AscendingDates ==
  \A s \in Snapshotted :
    Ascending(historyData[s]) =>
      /\ Ascending(fetched[s])
      /\ Ascending(promises[s].data)

\* C14: the merged series has the length of the end-of-day series plus 0 or
\* 1, and its first candles are the end-of-day candles in their order with
\* date, open, high, low, close and volume unchanged, in rawData and in the
\* annotated candles of the snapshot.
C14_HistoryKept ==
  \A s \in Tracked :
    historyOutcome[s] = "data" =>
      LET h == historyData[s]
      IN  /\ Len(fetched[s]) \in {Len(h), Len(h) + 1}
          /\ \A i \in 1..Len(h) : fetched[s][i] = h[i]
          /\ s \in Snapshotted =>
               /\ Len(promises[s].data) = Len(fetched[s])
               /\ \A i \in 1..Len(h) : SameCandle(promises[s].data[i], h[i])

\* two end-of-day rows and the candle of today after them
C14_Witness ==
  /\ todayStr = 3
  /\ 1 \in Snapshotted
  /\ Len(historyData[1]) = 2
  /\ Len(promises[1].data) = 3
  /\ promises[1].data[1].date = 1
  /\ promises[1].data[1].close = 103
  /\ promises[1].data[2].date = 2
  /\ promises[1].data[2].volume = 1000
  /\ promises[1].data[3].date = 3

\* the outcomes of a TaiwanStockTick request that bring no tick
NoTicks == {"throw", "absent", "empty"}

\* C15: when the tick request throws or brings an empty or absent list, the
\* series of the symbol is the end-of-day series unchanged and the symbol
\* still has its snapshot in the result of the batch.
C15_SnapshotFallback ==
  \A s \in Tracked :
    tickOutcome[s] \in NoTicks =>
      /\ fetched[s] = historyData[s]
      /\ s \in Snapshotted
      /\ Len(promises[s].data) = Len(historyData[s])
      /\ \A i \in 1..Len(historyData[s]) :
           SameCandle(promises[s].data[i], historyData[s][i])
      /\ batch # "rejected"
      /\ batch = "returned" =>
           \E i \in 1..Len(results) :
             /\ results[i] = promises[s]
             /\ results[i].code = TARGET_STOCKS[s].code

\* the tick requests of the three symbols threw, brought an empty list and
\* brought no list: all three are in the result with their end-of-day rows
C15_Witness ==
  /\ batch = "returned"
  /\ tickOutcome[1] = "throw"
  /\ tickOutcome[2] = "empty"
  /\ tickOutcome[3] = "absent"
  /\ Len(results) >= 3
  /\ results[1].code = "2330"
  /\ results[2].code = "2317"
  /\ results[3].code = "2454"
  /\ \A i \in 1..3 : Len(results[i].data) = Len(historyData[i])

\* the rows the pipeline of symbol s builds from its own two responses
OwnRows(s) ==
  IF tickOutcome[s] = "data" /\ Len(tickData[s]) > 0
  THEN historyData[s] \o <<TickCandle(tickData[s], todayStr)>>
  ELSE historyData[s]

\* C19: the value fetchMarketData returns does not depend on the order in
\* which the symbols' requests complete: in every interleaving the result
\* lists the symbols that brought candles in the order of TARGET_STOCKS, and
\* the candles, indicators and signals of each symbol are those of its own
\* end-of-day rows and ticks.
C19_OrderInsensitive ==
  /\ \A s \in Tracked :
       historyOutcome[s] = "data" =>
         /\ fetched[s] \in {historyData[s], OwnRows(s)}
         /\ s \in Snapshotted =>
              /\ fetched[s] = OwnRows(s)
              /\ promises[s].code = TARGET_STOCKS[s].code
              /\ <<promises[s].ADR_Percent, promises[s].RS_Score>> \in RandomDraws
              /\ promises[s] =
                   Snapshot(TARGET_STOCKS[s], OwnRows(s),
                            <<promises[s].ADR_Percent, promises[s].RS_Score>>)
  /\ batch = "returned" =>
       /\ Len(results) = Cardinality(Succeeded)
       /\ \A i \in 1..Len(results) : \A j \in 1..Len(results) :
            i < j =>
              \E s \in Succeeded : \E t \in Succeeded :
                /\ s < t
                /\ results[i] = promises[s]
                /\ results[j] = promises[t]

\* the third symbol has its snapshot, with the candle of today, while the
\* first waits for its ticks and the second for its end-of-day rows
C19_Witness ==
  /\ pc = <<"snapshot", "history", "done">>
  /\ 3 \in Snapshotted
  /\ tickOutcome[3] = "data"
  /\ historyData[1] # historyData[3]
  /\ Len(promises[3].data) = Len(historyData[3]) + 1

\* every symbol completed in some order and the result lists all of them
C19_WitnessAll ==
  /\ batch = "returned"
  /\ Len(results) >= 3
  /\ results[1].code = "2330"
  /\ results[2].code = "2317"
  /\ results[3].code = "2454"
  /\ tickOutcome[1] = "data"
  /\ tickOutcome[2] = "none"
  /\ tickOutcome[3] = "throw"

\* a tick request follows an end-of-day response with rows whose last date
\* is not today, and there is at most one per symbol
TickAfterHistory ==
  \A s \in Tracked :
    /\ tickRequests[s] <= 1
    /\ pc[s] \in {"idle", "history"} => tickRequests[s] = 0
    /\ tickRequests[s] > 0 =>
         /\ historyOutcome[s] = "data"
         /\ Len(historyData[s]) > 0
         /\ LastDate(historyData[s]) # todayStr
    /\ historyOutcome[s] \in {"throw", "failed", "empty"} => tickRequests[s] = 0

\* C20: a symbol's tick request is issued only after its end-of-day request
\* returned rows whose last date is not today; it is never issued when the
\* end-of-day request failed, was empty or already includes today; at most
\* one tick request is issued per symbol and refresh.
C20_TickFetchGuard ==
  /\ TickAfterHistory
  /\ \A s \in Tracked :
       (historyOutcome[s] = "data"
          /\ \E i \in 1..Len(historyData[s]) : historyData[s][i].date = todayStr)
       => tickRequests[s] = 0

\* ------------------------------------------------------------------------
\* Properties of the snapshot's flags
\* ------------------------------------------------------------------------
\* C17: isAbove200MA is true iff the last candle's 200-period average is
\* defined and lastClose exceeds it, isVolAbove5MA is true iff the last
\* candle's 5-period volume average is defined and the last volume exceeds
\* it; each flag is false when its average is undefined, and this holds also
\* when a defined average is 0.
C17_Flags ==
  snapshot # NULL =>
    LET last == analyzedData[Len(analyzedData)]
    IN  /\ snapshot.lastClose = last.close
        /\ (last.ma200 # NULL) <=> (Len(rawData) >= 200)
        /\ (last.volMa5 # NULL) <=> (Len(rawData) >= 5)
        /\ snapshot.isAbove200MA \in BOOLEAN
        /\ snapshot.isVolAbove5MA \in BOOLEAN
        /\ snapshot.isAbove200MA <=>
             (last.ma200 # NULL /\ LessNum(last.ma200, Num(snapshot.lastClose)))
        /\ snapshot.isVolAbove5MA <=>
             (last.volMa5 # NULL /\ LessNum(last.volMa5, Num(last.volume)))

\* 201 sessions without a trade: the volume average is 0 and the flag is
\* false, the last close 106 is above the 200-period average
C17_Witness ==
  /\ snapshot # NULL
  /\ Len(analyzedData) = 201
  /\ analyzedData[201].volMa5 = Num(0)
  /\ analyzedData[201].volume = 0
  /\ ~snapshot.isVolAbove5MA
  /\ analyzedData[201].close = 106
  /\ snapshot.isAbove200MA

\* five sessions with a volume above their average, no 200-period average
C17_WitnessShort ==
  /\ snapshot # NULL
  /\ Len(analyzedData) < 200
  /\ snapshot.isVolAbove5MA
  /\ ~snapshot.isAbove200MA

\* 200 sessions at price 0: the 200-period average is defined and 0
C17_WitnessZero ==
  /\ snapshot # NULL
  /\ Len(analyzedData) = 200
  /\ analyzedData[200].ma200 = Num(0)
  /\ ~snapshot.isAbove200MA

\* ------------------------------------------------------------------------
\* Properties of the strict filter
\* ------------------------------------------------------------------------
\* the five clauses, on exact values
Clauses(s) ==
  << s.isAbove200MA,
     s.isVolAbove5MA,
     s.ADR_Percent.n * 10 > 35 * s.ADR_Percent.d,
     s.RS_Score > 80,
     s.lastClose * 100 >= 85 * s.yearHigh >>

Shown(s) == \E j \in 1..Len(filteredStocks) : filteredStocks[j] = s

\* C16: with the strict filter on, a snapshot is shown iff isAbove200MA and
\* isVolAbove5MA and ADR_Percent > 3.5 and RS_Score > 80 and
\* lastClose >= 0.85 * yearHigh; one clause false with the other four true
\* excludes the symbol.
C16_StrictFilter ==
  filterEnabled =>
    /\ Len(filteredStocks) <= Len(stocks)
    /\ \A j \in 1..Len(filteredStocks) :
         \E i \in 1..Len(stocks) : stocks[i] = filteredStocks[j]
    /\ \A i \in 1..Len(stocks) :
         LET c == Clauses(stocks[i])
         IN  /\ Shown(stocks[i]) <=> \A k \in 1..5 : c[k]
             /\ \A k \in 1..5 :
                  (~c[k] /\ \A m \in (1..5) \ {k} : c[m]) => ~Shown(stocks[i])

\* the first symbol fails on RS_Score = 80 alone, the second passes with
\* lastClose at 85% of the year's high
C16_Witness ==
  /\ filterEnabled
  /\ Len(stocks) = 2
  /\ stocks[1] = Listed(TARGET_STOCKS[1], TRUE, TRUE, Rat(351, 100), 80,
                        <<850, 1000>>)
  /\ stocks[2] = Listed(TARGET_STOCKS[2], TRUE, TRUE, Rat(351, 100), 81,
                        <<850, 1000>>)
  /\ filteredStocks = <<stocks[2]>>

\* ------------------------------------------------------------------------
\* Properties of analyzeChartPattern
\* ------------------------------------------------------------------------
\* the error of a call that met a failure of the collaborator
FailureOf(outcome) ==
  IF outcome = NULL THEN NULL
  ELSE IF "ok" \in DOMAIN outcome THEN outcome.error
  ELSE IF outcome.kind = "rejects" THEN outcome.error
  ELSE IF "text" \notin DOMAIN outcome THEN Error("Error", "Empty response from AI")
  ELSE IF outcome.text = ""
  THEN Error("Error", "Empty response from AI")
  ELSE IF outcome.text \in {BullishText, BearishText, "null"} THEN NULL
  ELSE JsonParse(outcome.text).error

\* a call that met a failure after the client was built returned the
\* placeholder carrying the error's text
FailureRecovered ==
  (aiCall = "returned" /\ FailureOf(aiOutcome) # NULL) =>
    /\ aiValue.sentiment = "Neutral"
    /\ aiValue.score = 0
    /\ \E k \in 1..Len(aiValue.explanation) :
         aiValue.explanation[k] = FailureOf(aiOutcome).message

\* C18: analyzeChartPattern never fails outright: on any failure of the
\* collaborator (construction of the client, authentication, network, empty
\* response, malformed JSON) it returns the placeholder with sentiment
\* Neutral, score 0 and the error's text in explanation, and does not reject.
C18_NeverRejects ==
  /\ aiCall # "rejected"
  /\ FailureRecovered

\* ------------------------------------------------------------------------
\* Properties of detectPatterns on two series
\* ------------------------------------------------------------------------
\* the greatest high of the first 50 rows of a series of more than 50
TopHigh(rows) ==
  CHOOSE m \in {rows[k].max : k \in 1..KeyLevelSpan} :
    \A k \in 1..KeyLevelSpan : rows[k].max <= m

\* two series agree on the session at position i
SameSession(i) == pairRaw[1][i] = pairRaw[2][i]

\* the signal fields at position i are the same in the two series
SameSignals(i) ==
  \A f \in SignalFields :
    /\ (f \in DOMAIN pairAnalyzed[1][i]) <=> (f \in DOMAIN pairAnalyzed[2][i])
    /\ f \in DOMAIN pairAnalyzed[1][i] =>
         pairAnalyzed[1][i][f] = pairAnalyzed[2][i][f]

\* C21: the signal annotation of candle i (i >= 1) depends only on candle i,
\* candle i-1 and the key level: two series of equal length that agree on
\* the candles i-1 and i and, when longer than 50, on the greatest high of
\* their first 50 candles have the same isPinBar, isEngulfing, isRSFlip and
\* signalType at index i.
C21_LocalSignals ==
  pairStage = "analyzed" =>
    LET n == Len(pairRaw[1])
        sameTop == n > KeyLevelSpan => TopHigh(pairRaw[1]) = TopHigh(pairRaw[2])
    IN  /\ Len(pairRaw[2]) = n
        /\ Len(pairAnalyzed[1]) = n
        /\ Len(pairAnalyzed[2]) = n
        /\ \A i \in 2..n :
             (SameSession(i - 1) /\ SameSession(i) /\ sameTop) => SameSignals(i)

\* 53 sessions that differ at the 51st only: the hammer at the key level is
\* a BUY at the 53rd in both
C21_Witness ==
  /\ pairStage = "analyzed"
  /\ Len(pairRaw[1]) = 53
  /\ pairRaw[1][51] # pairRaw[2][51]
  /\ SameSession(52)
  /\ SameSession(53)
  /\ TopHigh(pairRaw[1]) = 150
  /\ TopHigh(pairRaw[2]) = 150
  /\ pairAnalyzed[1][53].isRSFlip
  /\ pairAnalyzed[1][53].signalType = "BUY"
  /\ pairAnalyzed[2][53].signalType = "BUY"

\* the two series differ in the greatest high of their first 50 sessions and
\* get different signals at the last one
C21_WitnessKeyLevel ==
  /\ pairStage = "analyzed"
  /\ Len(pairRaw[1]) = 53
  /\ TopHigh(pairRaw[1]) # TopHigh(pairRaw[2])
  /\ SameSession(52)
  /\ SameSession(53)
  /\ pairAnalyzed[1][53].signalType # pairAnalyzed[2][53].signalType

\* ------------------------------------------------------------------------
\* Properties of the AI panel
\* ------------------------------------------------------------------------
\* C23: a non-null aiResult belongs to the stock selected now: once another
\* stock is selected, aiResult is null and aiStatus is not SUCCESS until an
\* analysis started for that stock completes, whatever was in flight at the
\* time of the selection.
C23_ResultOfSelection ==
  (aiResult # NULL \/ aiStatus = "SUCCESS") => aiResultOf = selectedCode

\* the step that breaks it: a call started for another stock than the one
\* selected settles
StaleSettles ==
  \E k \in 1..Len(analyses) :
    /\ analyses[k].code # selectedCode
    /\ \E r \in PanelResponses : AnalysisSettles(k, r)

\* every other step keeps it
C23_OnlyStaleBreaks ==
  [][(C23_ResultOfSelection /\ ~StaleSettles) => C23_ResultOfSelection']_vars

\* the values of AnalysisStatus the panel takes
C24_NeverError == aiStatus \in {"IDLE", "LOADING", "SUCCESS"}

\* C24: an analysis started with a stock selected sets aiStatus to LOADING
\* and, unless another stock is selected meanwhile (aiStatus is IDLE again),
\* aiStatus becomes SUCCESS with a non-null aiResult, whether the AI service
\* succeeds or fails; aiStatus does not stay LOADING for ever and is never
\* ERROR.
C24_AnalysisCompletes ==
  /\ []C24_NeverError
  /\ [][(\E built \in Constructions : HandleAiAnalysis(built))
          => aiStatus' = "LOADING"]_vars
  /\ (aiStatus = "LOADING")
       ~> (aiStatus = "IDLE" \/ (aiStatus = "SUCCESS" /\ aiResult # NULL))

\* the part of C24 that fails when analyzeChartPattern rejects
C24_LeavesLoading == (aiStatus = "LOADING") ~> (aiStatus # "LOADING")

\* LOADING with no call in flight: the handler ended at its await
C24_Stuck == aiStatus = "LOADING" /\ analyses = <<>>

====
